---- MODULE Spec2Model ----
(***************************************************************************)
(* WhatsApp Padel Match Tracker: the scenario dispatch of                  *)
(* src/src/config.py, the incremental-scan engine of                       *)
(* src/src/whatsapp_scanner.py, the result aggregator analyze_messages     *)
(* with the classifier client of src/src/agent.py, and the entry point and *)
(* the two mode functions scan_history_mode and monitor_live_mode of       *)
(* src/main.py and of src/test_apps/padel/main.py.                         *)
(*                                                                         *)
(* Strings that are sliced or concatenated by the code (sender, text,      *)
(* timestamp) are sequences of one-character strings.  One step of the     *)
(* model is the code that runs between two awaits of the mode function.    *)
(***************************************************************************)
EXTENDS Integers, Sequences, FiniteSets, Bags, TLC

VARIABLES
    app,               \* the entry point: "main" (src/main.py) or "padel" (src/test_apps/padel/main.py)
    scenario_files,    \* the files of scenarios/*.json in the order glob yields them
    scenario_definitions, \* Config.scenario_definitions
    group_to_scenario, \* Config.group_to_scenario
    mode,              \* args.mode of main()
    pc,                \* position of the mode function
    hash_seed,         \* the per-process seed of the builtin hash()
    gi,                \* index in groups of the loop variable group
    seen_message_ids,  \* WhatsAppScanner.seen_message_ids
    all_messages,      \* what _extract_messages returned to the last scan
    messages,          \* the list the last scan returned (argument of analyze_messages)
    mi,                \* enumerate index i of the loop of analyze_messages
    in_flight,         \* indexes of the messages whose agent.analyze_message call has not returned
    matches,           \* MatchTracker.matches
    window,            \* the Tk root of gui_window: "none", "open", "close_requested", "closed" (by the user), "destroyed"
    _agent,            \* the global _agent of agent.py: 0 for None, k for the k-th PadelAgent that was built
    agent,             \* PadelAgent.agent of the global agent: "None" or "ChatAgent"
    _initialized,      \* PadelAgent._initialized of the global agent
    agent_log,         \* history (SpecAgent): what the calls on the classifier client did, in call order
    check_count,       \* check_count of monitor_live_mode
    error,             \* the exception that left the try block of the mode function
    escaping,          \* the exception that leaves the mode function
    cleanups,          \* number of scanner.cleanup() calls
    exit_code,         \* exit status of the process, Running until it ends
    printed,           \* the report lines written to the console
    seen_before,       \* history: seen_message_ids when the last scan was called
    source_fault,      \* history: how the message source failed in the last scan
    scanned,           \* history: indexes of the groups whose scan returned in this pass over groups
    skipped,           \* history: indexes of the groups this pass over groups skipped
    returned_calls,    \* history: bag of fingerprints, one copy per incremental scan that returned it
    seeded,            \* history: messages whose fingerprint the initial load marked as seen
    outcomes,          \* history: what the classifier did for each message of the current batch
    batch_start,       \* history: Len(matches) when the current batch started
    insert_calls,      \* history: the fingerprints of the seen_message_ids.add calls of the last scan, in call order: those issued inside the scan method and those issued by its caller
    classified_by,     \* history: <<group, scenario of the agent>> of the classifier calls
    classified_ids,    \* history: bag of fingerprints, one copy per agent.analyze_message call on a message with it
    seen_in,           \* history (SpecChats): per group, the fingerprints its scans have met
    chat_before,       \* history (SpecChats): the group of the last scan and its seen_in when the scan was called
    lookup_log,        \* history (SpecConfig): <<group, result>> of the get_scenario_for_group calls
    id_log             \* history: <<message, fingerprint>> of the _get_message_id calls (SpecId)

vars == << app, scenario_files, scenario_definitions, group_to_scenario, mode, pc,
           hash_seed, gi, seen_message_ids, all_messages, messages, mi, in_flight,
           matches, window, _agent, agent, _initialized, agent_log, check_count,
           error, escaping, cleanups,
           exit_code, printed, seen_before, source_fault, scanned, skipped,
           returned_calls, seeded, outcomes, batch_start, insert_calls,
           classified_by, classified_ids, seen_in,
           chat_before, lookup_log, id_log >>

(***************************************************************************)
(* Bounds of the model.                                                    *)
(***************************************************************************)
MaxLen == 2        \* longest list one extraction yields
MaxChecks == 2     \* poll cycles of the live monitor that are explored
MaxSeed == 0       \* hash seeds 0..MaxSeed
HashMod == 32768   \* range of the modelled hash()
MaxCalls == 6      \* events of calls on the classifier client that are explored

(***************************************************************************)
(* Strings.                                                                *)
(***************************************************************************)
Rep(c, n) == [i \in 1..n |-> c]

Ord(c) ==
    CASE c = "A" -> 65 [] c = "B" -> 66 [] c = "_" -> 95 [] c = "a" -> 97
      [] c = "b" -> 98 [] c = "c" -> 99 [] c = "0" -> 48 [] c = "1" -> 49
      [] c = ":" -> 58 [] OTHER -> 63

\* the slice s[:n]
Take(s, n) == SubSeq(s, 1, IF Len(s) < n THEN Len(s) ELSE n)

PrefixLen == 50

(***************************************************************************)
(* Message (whatsapp_scanner.py) and the messages the source can yield.    *)
(***************************************************************************)
Message(sender, text, timestamp, phone_number) ==
    [sender |-> sender, text |-> text, timestamp |-> timestamp,
     phone_number |-> phone_number]

T1000 == <<"1", "0", ":", "0", "0">>
T1001 == <<"1", "0", ":", "0", "1">>

MsgLong  == Message(<<"A">>, Rep("a", 50), T1000, "N/A")
MsgTailB == Message(<<"A">>, Rep("a", 50) \o <<"b">>, T1000, "N/A")
MsgTailC == Message(<<"A">>, Rep("a", 50) \o <<"c">>, T1000, "N/A")
MsgPhone == Message(<<"A">>, Rep("a", 50), T1000, "0501234567")
Msg50th  == Message(<<"A">>, Rep("a", 49) \o <<"b">>, T1000, "N/A")
MsgLater == Message(<<"A">>, Rep("a", 50), T1001, "N/A")
MsgOther == Message(<<"B">>, Rep("a", 50), T1000, "N/A")

\* the separator of the key inside the sender and inside the text
MsgSepSender == Message(<<"A", "_", "b">>, <<"c">>, T1000, "N/A")
MsgSepText   == Message(<<"A">>, <<"b", "_", "c">>, T1000, "N/A")

\* the inputs of the identity function
Msgs == {MsgLong, MsgTailB, MsgTailC, MsgPhone, Msg50th, MsgLater, MsgOther,
         MsgSepSender, MsgSepText}

\* the messages a chat can show: MsgA and MsgA2 differ in the phone number
\* only, MsgB differs from both in the sender
MsgA  == Message(<<"A">>, <<"a", "b">>, T1000, "N/A")
MsgA2 == Message(<<"A">>, <<"a", "b">>, T1000, "0501234567")
MsgB  == Message(<<"B">>, <<"a", "b">>, T1000, "N/A")

SourceMsgs == {MsgA, MsgA2, MsgB}

SeqsUpTo(S, n) == UNION {[1..k -> S] : k \in 0..n}

Extractions == SeqsUpTo(SourceMsgs, MaxLen)

groups == <<"Padel A", "Padel B">>

(***************************************************************************)
(* Identity function: WhatsAppScanner._get_message_id.                     *)
(***************************************************************************)
KeyWholeText(message) ==
    message.sender \o <<"_">> \o message.text \o <<"_">> \o message.timestamp

\* f"{message.sender}_{message.text[:50]}_{message.timestamp}"
Key(message) ==
    message.sender \o <<"_">> \o Take(message.text, PrefixLen) \o <<"_">>
        \o message.timestamp

\* hash() of a str: a function of the characters and of the seed of the
\* process (a polynomial in the character codes); the width is reduced to
\* HashMod.  The string is split in halves to keep the evaluation shallow.
RECURSIVE Pow31(_)
Pow31(n) ==
    IF n = 0 THEN 1
    ELSE LET half == Pow31(n \div 2)
             sq == (half * half) % HashMod
         IN IF n % 2 = 0 THEN sq ELSE (sq * 31) % HashMod

RECURSIVE Poly(_, _, _)
Poly(s, lo, hi) ==
    IF lo > hi THEN 0
    ELSE IF lo = hi THEN Ord(s[lo]) % HashMod
    ELSE LET mid == (lo + hi) \div 2
         IN (Poly(s, lo, mid) * Pow31(hi - mid) + Poly(s, mid + 1, hi)) % HashMod

Hash(seed, s) == ((seed % HashMod) * Pow31(Len(s)) + Poly(s, 1, Len(s))) % HashMod

\* hash(key) of every message under every seed, tabulated once
IdTable ==
    [seed \in 0..MaxSeed |-> [m \in Msgs \cup SourceMsgs |-> Hash(seed, Key(m))]]

_get_message_id(message) == IdTable[hash_seed][message]

Ids(ms) == {_get_message_id(ms[i]) : i \in DOMAIN ms}

(***************************************************************************)
(* WhatsAppScanner.scan_group_new_messages, lines 132-140: the filter.     *)
(***************************************************************************)
RECURSIVE FilterLoopNoInsert(_, _, _)
FilterLoopNoInsert(rest, seen, new_messages) ==
    IF rest = <<>> THEN [new_messages |-> new_messages, seen |-> seen]
    ELSE LET msg == Head(rest)
             msg_id == _get_message_id(msg)
         IN IF msg_id \notin seen
            THEN FilterLoopNoInsert(Tail(rest), seen, Append(new_messages, msg))
            ELSE FilterLoopNoInsert(Tail(rest), seen, new_messages)

\* the membership test uses the set as it was when the scan started
RECURSIVE FilterLoopInsertAfter(_, _, _)
FilterLoopInsertAfter(rest, seen, new_messages) ==
    IF rest = <<>>
    THEN [new_messages |-> new_messages, seen |-> seen \cup Ids(new_messages)]
    ELSE LET msg == Head(rest)
             msg_id == _get_message_id(msg)
         IN IF msg_id \notin seen
            THEN FilterLoopInsertAfter(Tail(rest), seen, Append(new_messages, msg))
            ELSE FilterLoopInsertAfter(Tail(rest), seen, new_messages)

RECURSIVE FilterLoopPrepend(_, _, _)
FilterLoopPrepend(rest, seen, new_messages) ==
    IF rest = <<>> THEN [new_messages |-> new_messages, seen |-> seen]
    ELSE LET msg == Head(rest)
             msg_id == _get_message_id(msg)
         IN IF msg_id \notin seen
            THEN FilterLoopPrepend(Tail(rest), seen \cup {msg_id},
                                   <<msg>> \o new_messages)
            ELSE FilterLoopPrepend(Tail(rest), seen, new_messages)

RECURSIVE FilterLoop(_, _, _)
FilterLoop(rest, seen, new_messages) ==
    IF rest = <<>> THEN [new_messages |-> new_messages, seen |-> seen]
    ELSE LET msg == Head(rest)
             msg_id == _get_message_id(msg)
         IN IF msg_id \notin seen
            THEN FilterLoop(Tail(rest), seen \cup {msg_id}, Append(new_messages, msg))
            ELSE FilterLoop(Tail(rest), seen, new_messages)

FilterNewFresh(all, seen) ==
    LET f == FilterLoop(all, {}, <<>>)
    IN [new_messages |-> f.new_messages, seen |-> seen \cup f.seen]

FilterNewForget(all, seen) ==
    LET f == FilterLoop(all, seen, <<>>)
    IN [new_messages |-> f.new_messages, seen |-> Ids(f.new_messages)]

\* the new messages are found but their fingerprints are not recorded
FilterNewNoMark(all, seen) ==
    [new_messages |-> FilterLoop(all, seen, <<>>).new_messages, seen |-> seen]

FilterNew(all, seen) == FilterLoop(all, seen, <<>>)

(***************************************************************************)
(* The seen_message_ids.add calls, in call order.                          *)
(***************************************************************************)
RECURSIVE PollInsertCallsAll(_, _)
PollInsertCallsAll(rest, seen) ==
    IF rest = <<>> THEN <<>>
    ELSE <<_get_message_id(Head(rest))>> \o PollInsertCallsAll(Tail(rest), seen)

\* scan_group_new_messages, lines 134-137: add is called in the branch of
\* "msg_id not in self.seen_message_ids"
RECURSIVE PollInsertCalls(_, _)
PollInsertCalls(rest, seen) ==
    IF rest = <<>> THEN <<>>
    ELSE LET msg_id == _get_message_id(Head(rest))
         IN IF msg_id \notin seen
            THEN <<msg_id>> \o PollInsertCalls(Tail(rest), seen \cup {msg_id})
            ELSE PollInsertCalls(Tail(rest), seen)

\* monitor_live_mode, lines 157-159: add is called for every message
LoadInsertCalls(ms) == [i \in DOMAIN ms |-> _get_message_id(ms[i])]

HistoryInsertCallsAll(ms) == [i \in DOMAIN ms |-> _get_message_id(ms[i])]

\* scan_group_history, lines 87-114: no add call
HistoryInsertCalls(ms) == <<>>

\* set.add for each of calls
Inserted(calls, seen) == seen \cup {calls[i] : i \in DOMAIN calls}

(***************************************************************************)
(* monitor_live_mode, lines 157-159: mark as seen but don't analyze.       *)
(***************************************************************************)
MarkSeenNothing(ms, seen) == seen

MarkSeenFirst(ms, seen) ==
    IF ms = <<>> THEN seen ELSE seen \cup {_get_message_id(ms[1])}

MarkSeen(ms, seen) == seen \cup Ids(ms)

(***************************************************************************)
(* Message source: _navigate_to_group raises, _extract_messages swallows   *)
(* its own failure and returns the empty list.                             *)
(***************************************************************************)
SourceResults ==
    {[fault |-> "navigation", msgs |-> <<>>], [fault |-> "extraction", msgs |-> <<>>]}
    \cup {[fault |-> "none", msgs |-> xs] : xs \in Extractions}

(***************************************************************************)
(* Classifier.                                                             *)
(***************************************************************************)
GlobalAgentNew(a) == a + 1

\* get_agent, lines 111-116: the global instance is built on the first call
GlobalAgent(a) == IF a = 0 THEN 1 ELSE a

initializeFlagFirst(self, connected) ==
    IF self._initialized
    THEN [_initialized |-> TRUE, agent |-> self.agent,
          checked |-> FALSE, raised |-> FALSE]
    ELSE IF connected
    THEN [_initialized |-> TRUE, agent |-> "ChatAgent",
          checked |-> TRUE, raised |-> FALSE]
    ELSE [_initialized |-> TRUE, agent |-> self.agent,
          checked |-> TRUE, raised |-> TRUE]

\* PadelAgent.initialize, lines 19-43, on the fields self: the early return
\* of line 22, else _check_ollama_connection, which raises ConnectionError
\* when the server is not connected, then the agent is created and the
\* flag is set (line 43)
initialize(self, connected) ==
    IF self._initialized
    THEN [_initialized |-> TRUE, agent |-> self.agent,
          checked |-> FALSE, raised |-> FALSE]
    ELSE IF connected
    THEN [_initialized |-> TRUE, agent |-> "ChatAgent",
          checked |-> TRUE, raised |-> FALSE]
    ELSE [_initialized |-> FALSE, agent |-> self.agent,
          checked |-> TRUE, raised |-> TRUE]

\* what agent.run does for one message
Outcomes == {"throws", "absent", "invite", "no_invite"}

\* PadelAgent.analyze_message: the value of the result, None when run throws
analyze_message(outcome) == IF outcome = "throws" THEN "absent" ELSE outcome

IsMatchAnyResult(analysis) == analysis # "absent"

\* analyze_messages line 59: analysis and analysis.is_game_invite
IsMatch(analysis) == analysis = "invite"

NextIndexBreak(i, n, analysis) == IF analysis = "absent" THEN n + 1 ELSE i + 1

NextIndexSkip(i, n, analysis) == i + 2

\* analyze_messages lines 53 and 82-83: the loop goes on with the next
\* message after a result, an absent result or a caught exception
NextIndex(i, n, analysis) == i + 1

Match(msg, group_name) == [group_name |-> group_name, message |-> msg]


Range(s) == {s[i] : i \in DOMAIN s}

(***************************************************************************)
(* gui_display.py: MatchDisplayWindow over a Tk root.  A click on the      *)
(* close button is handled by the next update() or mainloop(), which       *)
(* returns normally; every later Tk call raises TclError.                  *)
(***************************************************************************)
TkRaises(w) == w \in {"closed", "destroyed"}

\* MatchDisplayWindow.update / show: pending events are handled
TkHandleEvents(w) == IF w = "close_requested" THEN "closed" ELSE w


(***************************************************************************)
(* config.py: the scenario files and the two dicts Config builds from      *)
(* them.  A dict is the sequence of its items in insertion order; an       *)
(* Optional value is a set of at most one element.  A key that a scenario  *)
(* file leaves out reads as the empty value.                               *)
(***************************************************************************)
DictHas(d, k) == \E i \in DOMAIN d : d[i].key = k

\* d.get(k)
DictGet(d, k) == {d[i].value : i \in {j \in DOMAIN d : d[j].key = k}}

DictSetDefault(d, k, v) ==
    IF DictHas(d, k) THEN d ELSE Append(d, [key |-> k, value |-> v])

\* d[k] = v
DictSet(d, k, v) ==
    IF DictHas(d, k)
    THEN [i \in DOMAIN d |-> IF d[i].key = k THEN [key |-> k, value |-> v] ELSE d[i]]
    ELSE Append(d, [key |-> k, value |-> v])

\* list(d.keys())
DictKeys(d) == [i \in DOMAIN d |-> d[i].key]

\* str.strip()
RECURSIVE Strip(_)
Strip(s) ==
    IF s = <<>> THEN s
    ELSE IF Head(s) = " " THEN Strip(Tail(s))
    ELSE IF s[Len(s)] = " " THEN Strip(SubSeq(s, 1, Len(s) - 1))
    ELSE s

\* scenarios/<name>.json
ScenarioFile(name, prompt, response_schema, gs) ==
    [name |-> name, prompt |-> prompt, response_schema |-> response_schema,
     groups |-> gs]

ScenarioDefinition(name, prompt, gs) ==
    [name |-> name, prompt |-> prompt, groups |-> gs]

\* _load_scenarios lines 87-88
RECURSIVE SetGroups(_, _, _)
SetGroups(d, gs, scenario) ==
    IF gs = <<>> THEN d
    ELSE SetGroups(DictSet(d, Head(gs), scenario), Tail(gs), scenario)

\* _load_scenarios lines 60-88: the body of the loop for one file
LoadFile(conf, file) ==
    LET prompt == Strip(file.prompt)
        response_schema == file.response_schema
        gs == file.groups
    IN IF prompt = <<>> \/ response_schema = <<>> \/ gs = <<>>
       THEN conf
       ELSE LET scenario == ScenarioDefinition(file.name, prompt, gs)
            IN [scenario_definitions |->
                    DictSet(conf.scenario_definitions, file.name, scenario),
                group_to_scenario |->
                    SetGroups(conf.group_to_scenario, gs, scenario)]

RECURSIVE LoadFiles(_, _)
LoadFiles(conf, files) ==
    IF files = <<>> THEN conf
    ELSE LoadFiles(LoadFile(conf, Head(files)), Tail(files))

_load_scenarios(files) ==
    LoadFiles([scenario_definitions |-> <<>>, group_to_scenario |-> <<>>], files)

\* Config.load_groups: the list that is returned, empty when it raises ValueError
load_groups(d) == DictKeys(d)

get_scenario_for_group(d, group_name) == DictGet(d, group_name)

\* Config.get_default_scenario: empty when it raises RuntimeError
get_default_scenario(defs) == IF defs = <<>> THEN {} ELSE {defs[1].value}

\* the scenario files the dispatch is explored with
ScenarioNames == {"padel", "insights"}
Prompts == {<<>>, <<" ">>, <<"p", " ">>}
Schemas == {<<>>, <<"confidence">>}
GroupLists == {<<>>, <<"Padel A">>, <<"Padel B">>, <<"Padel A", "Padel B">>}
ChatIds == {"Padel A", "Padel B", "Family"}

ScenarioFiles ==
    {ScenarioFile(n, p, s, gs) :
        n \in ScenarioNames, p \in Prompts, s \in Schemas, gs \in GroupLists}

\* what glob can yield: file names are unique
FileLists ==
    {fs \in SeqsUpTo(ScenarioFiles, Cardinality(ScenarioNames)) :
        \A i \in DOMAIN fs, j \in DOMAIN fs : i # j => fs[i].name # fs[j].name}

PadelFile(gs) == ScenarioFile("padel", <<"p">>, <<"confidence">>, gs)
InsightsFile(gs) == ScenarioFile("insights", <<"p">>, <<"confidence">>, gs)

\* configurations of a run of src/main.py: no scenario at all, or the two
\* groups under two scenarios
MainConfigs ==
    {<<>>, << PadelFile(<<"Padel A">>), InsightsFile(<<"Padel B">>) >>}

\* configurations the mode functions of the padel app are called under
PadelConfigs ==
    {<< PadelFile(<<"Padel A", "Padel B">>) >>,
     << PadelFile(<<"Padel A">>) >>,
     << PadelFile(<<"Padel B">>) >>,
     << PadelFile(<<"Padel A">>), InsightsFile(<<"Padel B">>) >>}

(***************************************************************************)
(* agent.py: the classifier an analyze_messages call works with, named by  *)
(* the scenario it classifies for.                                         *)
(***************************************************************************)
\* get_agent(): the one global PadelAgent
get_agent == "padel"

\* get_agent_for_scenario(scenario): the classifier of that scenario
get_agent_for_scenario(scenario) == scenario.name

CallsIssuedGather(i, n) == i..n

\* analyze_messages line 57: the awaited call for message i is the only one
\* that is issued
CallsIssued(i, n) == {i}

(***************************************************************************)
(* main(), lines 260-269, and the interpreter: the exit status of a run    *)
(* whose mode function ended with exception e.                             *)
(***************************************************************************)
Running == -1

ExitCodeZero(e) == 0

ExitCode(e) ==
    IF e = "none" THEN 0
    ELSE IF e = "KeyboardInterrupt" THEN 130
    ELSE 1

(***************************************************************************)
(* Initial state: the module config has been imported (Config() has loaded *)
(* the scenarios) and main() has parsed the arguments.                     *)
(***************************************************************************)
\* nothing has run yet
Blank ==
    /\ hash_seed \in 0..MaxSeed
    /\ gi = 1
    /\ seen_message_ids = {}
    /\ all_messages = <<>>
    /\ messages = <<>>
    /\ mi = 1
    /\ in_flight = {}
    /\ matches = <<>>
    /\ _agent = 0
    /\ agent = "None"
    /\ _initialized = FALSE
    /\ agent_log = <<>>
    /\ check_count = 0
    /\ error = "none"
    /\ escaping = "none"
    /\ cleanups = 0
    /\ exit_code = Running
    /\ printed = {}
    /\ seen_before = {}
    /\ source_fault = "none"
    /\ scanned = {}
    /\ skipped = {}
    /\ returned_calls = EmptyBag
    /\ seeded = {}
    /\ outcomes = <<>>
    /\ batch_start = 0
    /\ insert_calls = [scanner |-> <<>>, caller |-> <<>>]
    /\ classified_by = {}
    /\ classified_ids = EmptyBag
    /\ chat_before = [group |-> 0, seen |-> {}]
    /\ lookup_log = {}
    /\ id_log = {}

Init ==
    /\ app = "main"
    /\ scenario_files \in MainConfigs
    /\ scenario_definitions = _load_scenarios(scenario_files).scenario_definitions
    /\ group_to_scenario = _load_scenarios(scenario_files).group_to_scenario
    /\ mode \in {"scan-history", "monitor-live"}
    /\ pc = "main"
    /\ window = "none"
    /\ seen_in = <<>>
    /\ Blank

\* never assigned while a mode function runs
fixedVars == << app, scenario_files, scenario_definitions, group_to_scenario,
                mode, hash_seed, lookup_log, id_log >>

histVars == << seen_before, source_fault, scanned, returned_calls, seeded,
               outcomes, batch_start, insert_calls >>

chatVars == << seen_in, chat_before >>

callVars == << classified_by, classified_ids >>

\* the classifier client apart from its flag
agentVars == << _agent, agent, agent_log >>

\* an exception e leaves the try block of the mode function
Raise(e) ==
    /\ error' = e
    /\ pc' = "except_exception"

\* padel app, lines 104-106 / 154-156: the loops go on with a group only
\* when its scenario is the padel scenario; src/main.py takes every group
Eligible(g) ==
    \/ app = "main"
    \/ \E scenario \in get_scenario_for_group(group_to_scenario, groups[g]) :
         scenario.name = "padel"

NextEligible(i) ==
    LET E == {j \in DOMAIN groups : j >= i /\ Eligible(j)}
    IN IF E = {} THEN Len(groups) + 1
       ELSE CHOOSE j \in E : \A k \in E : j <= k

\* "for group in groups" of the scan loops goes on from index i; after the
\* last group scan_history_mode prints the summary (lines 113-116) and
\* calls gui_window.show(), monitor_live_mode calls gui_window.update()
ContinuePass(i, sk) ==
    LET n == NextEligible(i)
    IN /\ skipped' = sk \cup {j \in DOMAIN groups : i <= j /\ j < n}
       /\ IF n <= Len(groups)
          THEN /\ gi' = n
               /\ pc' = IF mode = "scan-history" THEN "scan" ELSE "poll"
               /\ printed' = printed
          ELSE /\ gi' = gi
               /\ pc' = IF mode = "scan-history" THEN "show" ELSE "update"
               /\ printed' = IF mode = "scan-history"
                             THEN printed \cup {"summary"} ELSE printed

\* the body of "for group in groups" has ended for groups[gi]
AfterGroup == ContinuePass(gi + 1, skipped)

\* analyze_messages is called with ms: lines 45-46 return at once on an
\* empty list, otherwise the call waits in agent.initialize() (src/main.py)
\* or enters the loop (padel app)
CallAnalyze(ms) ==
    /\ messages' = ms
    /\ mi' = 1
    /\ outcomes' = <<>>
    /\ batch_start' = Len(matches)
    /\ IF ms = <<>>
       THEN AfterGroup
       ELSE /\ pc' = IF app = "main" THEN "initialize" ELSE "analyze"
            /\ UNCHANGED << gi, skipped, printed >>

\* the scan of groups[g] has met the fingerprints ids
TrackChat(g, ids) ==
    IF seen_in = <<>>
    THEN UNCHANGED chatVars
    ELSE /\ chat_before' = [group |-> g, seen |-> seen_in[g]]
         /\ seen_in' = [seen_in EXCEPT ![g] = @ \cup ids]

\* the classifier analyze_messages gets for the messages of group
AgentFor(group) ==
    IF app = "main" THEN get_agent
    ELSE get_agent_for_scenario(
             CHOOSE scenario \in get_scenario_for_group(group_to_scenario, group) : TRUE)

(***************************************************************************)
(* main(), lines 250-264, and the mode function up to its try block:       *)
(* config.load_groups(), then scanner, tracker and gui_window are built    *)
(* (lines 99-103 / 143-147); tk.Tk() raises TclError without a display.    *)
(***************************************************************************)
Main ==
    /\ pc = "main"
    /\ IF load_groups(group_to_scenario) = <<>>
       THEN /\ exit_code' = 1
            /\ pc' = "done"
            /\ printed' = printed \cup {"configuration_error"}
            /\ UNCHANGED << window, escaping >>
       ELSE /\ load_groups(group_to_scenario) = groups
            /\ printed' = printed
            /\ \E built \in BOOLEAN :
                 IF built
                 THEN /\ window' = "open"
                      /\ pc' = "start"
                      /\ UNCHANGED << escaping, exit_code >>
                 ELSE /\ window' = window
                      /\ escaping' = "TclError"
                      /\ exit_code' = ExitCode("TclError")
                      /\ pc' = "done"
    /\ UNCHANGED << fixedVars, gi, seen_message_ids, all_messages, messages, mi,
                    in_flight, matches, _initialized, agentVars, check_count, error, cleanups,
                    histVars, skipped, callVars, chatVars >>

(***************************************************************************)
(* scanner.start() (main.py 106 / 150).                                    *)
(***************************************************************************)
Start ==
    /\ pc = "start"
    /\ \E ok \in BOOLEAN :
         IF ok
         THEN /\ error' = error
              /\ IF mode = "scan-history"
                 THEN ContinuePass(1, {})
                 ELSE pc' = "load" /\ UNCHANGED << gi, skipped, printed >>
         ELSE Raise("start") /\ UNCHANGED << gi, skipped, printed >>
    /\ UNCHANGED << fixedVars, seen_message_ids, all_messages, messages, mi,
                    in_flight, matches, window, _initialized, agentVars, check_count,
                    escaping, cleanups, exit_code, histVars, callVars,
                    chatVars >>

(***************************************************************************)
(* scan_history_mode, lines 109-116: one scan_group_history call and the   *)
(* entry of analyze_messages; after the last group the summary is printed  *)
(* and gui_window.show() is called.                                        *)
(***************************************************************************)
ScanHistory ==
    /\ pc = "scan"
    /\ \E r \in SourceResults :
         /\ seen_before' = seen_message_ids
         /\ source_fault' = r.fault
         /\ IF r.fault = "navigation"
            THEN /\ Raise("navigation")
                 /\ insert_calls' = [scanner |-> <<>>, caller |-> <<>>]
                 /\ UNCHANGED << gi, all_messages, messages, mi, scanned, skipped,
                                 printed, outcomes, batch_start,
                                 seen_message_ids >>
            ELSE /\ all_messages' = r.msgs
                 /\ insert_calls' = [scanner |-> HistoryInsertCalls(r.msgs),
                                     caller |-> <<>>]
                 /\ seen_message_ids' =
                        Inserted(HistoryInsertCalls(r.msgs), seen_message_ids)
                 /\ scanned' = scanned \cup {gi}
                 /\ CallAnalyze(r.msgs)
                 /\ error' = error
    /\ UNCHANGED << fixedVars, in_flight, matches, window,
                    _initialized, agentVars, check_count, escaping, cleanups, exit_code,
                    returned_calls, seeded, callVars, chatVars >>

(***************************************************************************)
(* monitor_live_mode, lines 154-167: the initial load of one group.  The   *)
(* padel app (lines 140-144) loads every group too.                        *)
(***************************************************************************)
LoadGroup ==
    /\ pc = "load"
    /\ \E r \in SourceResults :
         /\ seen_before' = seen_message_ids
         /\ source_fault' = r.fault
         /\ IF r.fault = "navigation"
            THEN /\ Raise("navigation")
                 /\ insert_calls' = [scanner |-> <<>>, caller |-> <<>>]
                 /\ UNCHANGED << gi, all_messages, seen_message_ids, scanned,
                                 skipped, printed, seeded, check_count, chatVars >>
            ELSE /\ all_messages' = r.msgs
                 /\ insert_calls' = [scanner |-> HistoryInsertCalls(r.msgs),
                                     caller |-> LoadInsertCalls(r.msgs)]
                 /\ seen_message_ids' =
                        MarkSeen(r.msgs, Inserted(HistoryInsertCalls(r.msgs),
                                                  seen_message_ids))
                 /\ seeded' = seeded \cup Range(r.msgs)
                 /\ TrackChat(gi, Ids(r.msgs))
                 /\ error' = error
                 /\ IF gi < Len(groups)
                    THEN /\ gi' = gi + 1
                         /\ pc' = "load"
                         /\ check_count' = check_count
                         /\ scanned' = scanned \cup {gi}
                         /\ UNCHANGED << skipped, printed >>
                    ELSE /\ check_count' = check_count + 1
                         /\ scanned' = {}
                         /\ ContinuePass(1, {})
    /\ UNCHANGED << fixedVars, messages, mi, in_flight, matches, window,
                    _initialized, agentVars, escaping, cleanups, exit_code, returned_calls,
                    outcomes, batch_start, callVars >>

(***************************************************************************)
(* monitor_live_mode, lines 171-178: one scan_group_new_messages call and  *)
(* the entry of analyze_messages.                                          *)
(***************************************************************************)
PollGroup ==
    /\ pc = "poll"
    /\ \E r \in SourceResults :
         /\ seen_before' = seen_message_ids
         /\ source_fault' = r.fault
         /\ IF r.fault = "navigation"
            THEN /\ Raise("navigation")
                 /\ insert_calls' = [scanner |-> <<>>, caller |-> <<>>]
                 /\ UNCHANGED << gi, all_messages, messages, mi, seen_message_ids,
                                 scanned, skipped, printed, returned_calls,
                                 outcomes, batch_start, chatVars >>
            ELSE LET f == FilterNew(r.msgs, seen_message_ids)
                 IN /\ all_messages' = r.msgs
                    /\ insert_calls' =
                           [scanner |-> PollInsertCalls(r.msgs, seen_message_ids),
                            caller |-> <<>>]
                    /\ scanned' = scanned \cup {gi}
                    /\ seen_message_ids' = f.seen
                    /\ returned_calls' =
                           returned_calls (+) SetToBag(Ids(f.new_messages))
                    /\ TrackChat(gi, Ids(r.msgs))
                    /\ CallAnalyze(f.new_messages)
                    /\ error' = error
    /\ UNCHANGED << fixedVars, in_flight, matches, window, _initialized, agentVars,
                    check_count, escaping, cleanups, exit_code, seeded,
                    callVars >>

(***************************************************************************)
(* analyze_messages, lines 48-49: get_agent() and agent.initialize()       *)
(* (agent.py 19-43); _check_ollama_connection raises ConnectionError.      *)
(***************************************************************************)
Initialize ==
    /\ pc = "initialize"
    /\ _agent' = GlobalAgent(_agent)
    /\ \E connected \in BOOLEAN :
         LET r == initialize([_initialized |-> _initialized, agent |-> agent],
                             connected)
         IN /\ _initialized' = r._initialized
            /\ agent' = r.agent
            /\ IF r.raised
               THEN Raise("connection")
               ELSE pc' = "analyze" /\ error' = error
    /\ agent_log' = agent_log
    /\ UNCHANGED << fixedVars, gi, seen_message_ids, all_messages, messages, mi,
                    in_flight, matches, window, check_count, escaping, cleanups,
                    exit_code, printed, histVars, skipped, callVars,
                    chatVars >>

(***************************************************************************)
(* analyze_messages, line 57: agent.analyze_message(msg.text) is called    *)
(* for message mi and awaited.                                             *)
(***************************************************************************)
AnalyzeCall ==
    /\ pc = "analyze"
    /\ in_flight' = in_flight \cup CallsIssued(mi, Len(messages))
    /\ classified_by' = classified_by \cup {<< groups[gi], AgentFor(groups[gi]) >>}
    /\ classified_ids' =
           classified_ids (+) SetToBag({_get_message_id(messages[mi])})
    /\ pc' = "classify"
    /\ UNCHANGED << fixedVars, gi, seen_message_ids, all_messages, messages, mi,
                    matches, window, _initialized, agentVars, check_count, error, escaping,
                    cleanups, exit_code, printed, histVars, skipped, chatVars >>

(***************************************************************************)
(* analyze_messages, lines 57-85: the call for message mi returns and the  *)
(* iteration of the loop ends.  add_match and update of the window raise   *)
(* TclError on a closed window; the except of line 82 catches it after     *)
(* tracker.add_match has run.                                              *)
(***************************************************************************)
Analyze ==
    /\ pc = "classify"
    /\ in_flight' = in_flight \ {mi}
    /\ \E outcome \in Outcomes :
         LET analysis == analyze_message(outcome)
             msg == messages[mi]
         IN /\ outcomes' = Append(outcomes, outcome)
            /\ IF IsMatch(analysis)
               THEN /\ matches' = Append(matches, Match(msg, groups[gi]))
                    /\ window' = IF TkRaises(window) THEN window
                                 ELSE TkHandleEvents(window)
               ELSE UNCHANGED << matches, window >>
            /\ mi' = NextIndex(mi, Len(messages), analysis)
    /\ IF mi' <= Len(messages)
       THEN pc' = "analyze" /\ UNCHANGED << gi, skipped, printed >>
       ELSE AfterGroup
    /\ UNCHANGED << fixedVars, seen_message_ids, all_messages, messages,
                    _initialized, agentVars, check_count, error, escaping, cleanups,
                    exit_code, seen_before, source_fault, scanned,
                    returned_calls, seeded, batch_start, insert_calls,
                    callVars, chatVars >>

(***************************************************************************)
(* monitor_live_mode, lines 180-192 and 166-167: gui_window.update(), the  *)
(* sleep and the start of the next check.                                  *)
(***************************************************************************)
Update ==
    /\ pc = "update"
    /\ IF TkRaises(window)
       THEN /\ pc' = "finally"
            /\ printed' = printed \cup {"window_closed"}
            /\ UNCHANGED << window, check_count, gi, scanned, skipped >>
       ELSE /\ check_count < MaxChecks
            /\ window' = TkHandleEvents(window)
            /\ check_count' = check_count + 1
            /\ scanned' = {}
            /\ ContinuePass(1, {})
    /\ UNCHANGED << fixedVars, seen_message_ids, all_messages, messages, mi,
                    in_flight, matches, _initialized, agentVars, error, escaping, cleanups,
                    exit_code, seen_before, source_fault, returned_calls, seeded,
                    outcomes, batch_start, insert_calls, callVars,
                    chatVars >>

(***************************************************************************)
(* scan_history_mode, line 119: gui_window.show() returns when the window  *)
(* has been closed.                                                        *)
(***************************************************************************)
Show ==
    /\ pc = "show"
    /\ window # "open"
    /\ window' = TkHandleEvents(window)
    /\ pc' = "finally"
    /\ UNCHANGED << fixedVars, gi, seen_message_ids, all_messages, messages, mi,
                    in_flight, matches, _initialized, agentVars, check_count, error,
                    escaping, cleanups, exit_code, printed, histVars, skipped,
                    callVars, chatVars >>

(***************************************************************************)
(* except Exception (main.py 124-126 / 197-199): the error is printed and  *)
(* gui_window.destroy() is called, which raises TclError when the user has *)
(* closed the window.                                                      *)
(***************************************************************************)
ExceptException ==
    /\ pc = "except_exception"
    /\ printed' = printed \cup {"error"}
    /\ IF TkRaises(window)
       THEN escaping' = "TclError" /\ window' = window
       ELSE escaping' = escaping /\ window' = "destroyed"
    /\ pc' = "finally"
    /\ UNCHANGED << fixedVars, gi, seen_message_ids, all_messages, messages, mi,
                    in_flight, matches, _initialized, agentVars, check_count, error,
                    cleanups, exit_code, histVars, skipped, callVars,
                    chatVars >>

FinallyNoCleanup(n) == n

\* finally (main.py 127-128 / 200-201): await scanner.cleanup()
FinallyCleanups(n) == n + 1

(***************************************************************************)
(* finally (main.py 127-128 / 200-201): scanner.cleanup(); then the mode   *)
(* function returns or raises, and main() ends the process.                *)
(***************************************************************************)
Finally ==
    /\ pc = "finally"
    /\ cleanups' = FinallyCleanups(cleanups)
    /\ exit_code' = ExitCode(escaping)
    /\ pc' = "done"
    /\ UNCHANGED << fixedVars, gi, seen_message_ids, all_messages, messages, mi,
                    in_flight, matches, window, _initialized, agentVars, check_count, error,
                    escaping, printed, histVars, skipped, callVars,
                    chatVars >>

(***************************************************************************)
(* The user clicks the close button of the window.                         *)
(***************************************************************************)
UserClose ==
    /\ pc \notin {"done"}
    /\ window = "open"
    /\ window' = "close_requested"
    /\ UNCHANGED << fixedVars, pc, gi, seen_message_ids, all_messages, messages,
                    mi, in_flight, matches, _initialized, agentVars, check_count, error,
                    escaping, cleanups, exit_code, printed, histVars, skipped,
                    callVars, chatVars >>

Next ==
    \/ Main
    \/ Start
    \/ ScanHistory
    \/ LoadGroup
    \/ PollGroup
    \/ Initialize
    \/ AnalyzeCall
    \/ Analyze
    \/ Update
    \/ Show
    \/ ExceptException
    \/ Finally
    \/ UserClose

Spec == Init /\ [][Next]_vars

TypeOK ==
    /\ app \in {"main", "padel"}
    /\ mode \in {"scan-history", "monitor-live"}
    /\ pc \in {"config", "loaded", "main", "start", "scan", "load", "poll",
               "initialize", "analyze", "classify", "update", "show",
               "except_exception", "finally", "done"}
    /\ gi \in DOMAIN groups
    /\ messages \in Extractions
    /\ all_messages \in Extractions
    /\ mi \in 1..(MaxLen + 1)
    /\ in_flight \subseteq 1..MaxLen
    /\ window \in {"none", "open", "close_requested", "closed", "destroyed"}
    /\ _agent \in 0..1
    /\ agent \in {"None", "ChatAgent"}
    /\ _initialized \in BOOLEAN
    /\ check_count \in 0..MaxChecks
    /\ error \in {"none", "start", "navigation", "connection",
                  "KeyboardInterrupt", "CancelledError"}
    /\ escaping \in {"none", "TclError", "KeyboardInterrupt"}
    /\ cleanups \in 0..1
    /\ exit_code \in {Running, 0, 1, 130}
    /\ scanned \subseteq DOMAIN groups
    /\ skipped \subseteq DOMAIN groups

(***************************************************************************)
(* The identity function on its own: any number of _get_message_id calls   *)
(* on any messages, in one process.                                        *)
(***************************************************************************)
InitId ==
    /\ Init
    /\ mode = "monitor-live"

GetMessageId ==
    /\ \E m \in Msgs : id_log' = id_log \cup {<< m, _get_message_id(m) >>}
    /\ UNCHANGED << app, scenario_files, scenario_definitions, group_to_scenario,
                    mode, pc, hash_seed, gi, seen_message_ids, all_messages,
                    messages, mi, in_flight, matches, window, _initialized, agentVars,
                    check_count, error, escaping, cleanups, exit_code, printed,
                    histVars, skipped, callVars, chatVars, lookup_log >>

NextId == GetMessageId

SpecId == InitId /\ [][NextId]_vars

(***************************************************************************)
(* The scenario dispatch on its own: Config() loads the scenario files,    *)
(* then get_scenario_for_group is called for any chat identifiers.         *)
(***************************************************************************)
InitConfig ==
    /\ app = "main"
    /\ scenario_files \in FileLists
    /\ scenario_definitions = <<>>
    /\ group_to_scenario = <<>>
    /\ mode = "scan-history"
    /\ pc = "config"
    /\ window = "none"
    /\ seen_in = <<>>
    /\ Blank

\* Config.__init__ line 51: self._load_scenarios()
LoadScenarios ==
    /\ pc = "config"
    /\ scenario_definitions' = _load_scenarios(scenario_files).scenario_definitions
    /\ group_to_scenario' = _load_scenarios(scenario_files).group_to_scenario
    /\ pc' = "loaded"
    /\ UNCHANGED << app, scenario_files, mode, hash_seed, gi, seen_message_ids,
                    all_messages, messages, mi, in_flight, matches, window,
                    _initialized, agentVars, check_count, error, escaping, cleanups,
                    exit_code, printed, histVars, skipped, callVars,
                    chatVars, lookup_log, id_log >>

GetScenarioForGroup ==
    /\ pc = "loaded"
    /\ \E group_name \in ChatIds :
         lookup_log' = lookup_log \cup
             {<< group_name, get_scenario_for_group(group_to_scenario, group_name) >>}
    /\ UNCHANGED << app, scenario_files, scenario_definitions, group_to_scenario,
                    mode, pc, hash_seed, gi, seen_message_ids, all_messages,
                    messages, mi, in_flight, matches, window, _initialized, agentVars,
                    check_count, error, escaping, cleanups, exit_code, printed,
                    histVars, skipped, callVars, chatVars, id_log >>

NextConfig ==
    \/ LoadScenarios
    \/ GetScenarioForGroup

SpecConfig == InitConfig /\ [][NextConfig]_vars

(***************************************************************************)
(* The padel app (src/test_apps/padel/main.py): scan_history_mode or       *)
(* monitor_live_mode is called with the list groups, under a configuration *)
(* that maps each group to the padel scenario, to another scenario or to   *)
(* none; scanner, tracker and gui_window have been built.                  *)
(***************************************************************************)
InitPadel ==
    /\ app = "padel"
    /\ scenario_files \in PadelConfigs
    /\ scenario_definitions = _load_scenarios(scenario_files).scenario_definitions
    /\ group_to_scenario = _load_scenarios(scenario_files).group_to_scenario
    /\ mode \in {"scan-history", "monitor-live"}
    /\ pc = "start"
    /\ window = "open"
    /\ seen_in = <<>>
    /\ Blank

NextPadel ==
    \/ Start
    \/ ScanHistory
    \/ LoadGroup
    \/ PollGroup
    \/ AnalyzeCall
    \/ Analyze
    \/ Update
    \/ Show
    \/ ExceptException
    \/ Finally
    \/ UserClose

SpecPadel == InitPadel /\ [][NextPadel]_vars

(***************************************************************************)
(* The user interrupts the run (Ctrl+C).  Either KeyboardInterrupt is      *)
(* raised inside the mode function and its handler runs (main.py 121-123 / *)
(* 194-196: a line is printed and gui_window.destroy() is called), or      *)
(* asyncio.run cancels the task: CancelledError passes the except clauses, *)
(* and KeyboardInterrupt leaves asyncio.run after the finally clause.      *)
(***************************************************************************)
Interrupt ==
    /\ pc \in {"start", "scan", "load", "poll", "initialize", "analyze",
               "classify", "update", "show"}
    /\ \E delivery \in {"KeyboardInterrupt", "CancelledError"} :
         /\ error' = delivery
         /\ IF delivery = "KeyboardInterrupt"
            THEN /\ printed' = printed \cup {"interrupted"}
                 /\ IF TkRaises(window)
                    THEN escaping' = "TclError" /\ window' = window
                    ELSE escaping' = escaping /\ window' = "destroyed"
            ELSE /\ escaping' = "KeyboardInterrupt"
                 /\ UNCHANGED << window, printed >>
    /\ in_flight' = {}
    /\ pc' = "finally"
    /\ UNCHANGED << fixedVars, gi, seen_message_ids, all_messages, messages, mi,
                    matches, _initialized, agentVars, check_count, cleanups, exit_code,
                    histVars, skipped, callVars, chatVars >>

NextInterrupt ==
    \/ Next
    \/ Interrupt

SpecInterrupt == Init /\ [][NextInterrupt]_vars

(***************************************************************************)
(* The live monitor with the fingerprints of each chat recorded apart.     *)
(***************************************************************************)
InitChats ==
    /\ app = "main"
    /\ scenario_files \in MainConfigs \ {<<>>}
    /\ scenario_definitions = _load_scenarios(scenario_files).scenario_definitions
    /\ group_to_scenario = _load_scenarios(scenario_files).group_to_scenario
    /\ mode = "monitor-live"
    /\ pc = "main"
    /\ window = "none"
    /\ seen_in = [g \in DOMAIN groups |-> {}]
    /\ Blank

NextChats ==
    \/ Main
    \/ Start
    \/ LoadGroup
    \/ PollGroup
    \/ Initialize
    \/ AnalyzeCall
    \/ Analyze
    \/ Update
    \/ ExceptException
    \/ Finally
    \/ UserClose

SpecChats == InitChats /\ [][NextChats]_vars

(***************************************************************************)
(* The live monitor under a fair scheduler.  monitor_live_mode is the one  *)
(* task of the event loop of asyncio.run: whenever the operation it awaits *)
(* (browser call, classifier call, sleep) completes, the loop resumes it,  *)
(* so a step of the mode function that stays possible is taken.  The user  *)
(* is under no such obligation.                                            *)
(***************************************************************************)
InitLive ==
    /\ Init
    /\ scenario_files # <<>>
    /\ mode = "monitor-live"

NextLive ==
    \/ NextChats
    \/ Interrupt

FairLive ==
    /\ WF_vars(Main)
    /\ WF_vars(Start)
    /\ WF_vars(LoadGroup)
    /\ WF_vars(PollGroup)
    /\ WF_vars(Initialize)
    /\ WF_vars(AnalyzeCall)
    /\ WF_vars(Analyze)
    /\ WF_vars(Update)

SpecLive == InitLive /\ [][NextLive]_vars /\ FairLive

(***************************************************************************)
(* The classifier client on its own: any sequence of get_agent,            *)
(* initialize and analyze_message calls, with the server reachable or not  *)
(* at each connection check.                                               *)
(***************************************************************************)
InitAgent ==
    /\ Init
    /\ scenario_files # <<>>
    /\ mode = "monitor-live"

\* what an initialize call did
InitializeEvent(r) ==
    IF ~r.checked THEN "initialize:return"
    ELSE IF r.raised THEN "initialize:ConnectionError"
    ELSE "initialize:created"

\* analyze_message, lines 74-79: self.agent.run; on a missing agent the
\* attribute access raises and the except clause returns None
RunEvent(a) == IF a = "None" THEN "run:no_agent" ELSE "run"

agentFrame == << fixedVars, pc, gi, seen_message_ids, all_messages, messages,
                 mi, in_flight, matches, window, check_count, error, escaping,
                 cleanups, exit_code, printed, histVars, skipped, callVars,
                 chatVars >>

\* get_agent()
GetAgentCall ==
    /\ Len(agent_log) < MaxCalls
    /\ _agent' = GlobalAgent(_agent)
    /\ agent_log' = Append(agent_log, IF _agent' = _agent THEN "get_agent:same"
                                      ELSE "get_agent:new")
    /\ UNCHANGED << agentFrame, agent, _initialized >>

\* get_agent().initialize()
InitializeCall ==
    /\ _agent # 0
    /\ Len(agent_log) < MaxCalls
    /\ \E connected \in BOOLEAN :
         LET r == initialize([_initialized |-> _initialized, agent |-> agent],
                             connected)
         IN /\ _initialized' = r._initialized
            /\ agent' = r.agent
            /\ agent_log' = Append(agent_log, InitializeEvent(r))
    /\ UNCHANGED << agentFrame, _agent >>

\* get_agent().analyze_message(message), lines 71-79
AnalyzeMessageCall ==
    /\ _agent # 0
    /\ Len(agent_log) + 1 < MaxCalls
    /\ IF _initialized
       THEN /\ agent_log' = Append(agent_log, RunEvent(agent))
            /\ UNCHANGED << agent, _initialized >>
       ELSE \E connected \in BOOLEAN :
              LET r == initialize([_initialized |-> _initialized, agent |-> agent],
                                  connected)
              IN /\ _initialized' = r._initialized
                 /\ agent' = r.agent
                 /\ agent_log' =
                        IF r.raised
                        THEN Append(agent_log, InitializeEvent(r))
                        ELSE agent_log \o << InitializeEvent(r), RunEvent(r.agent) >>
    /\ UNCHANGED << agentFrame, _agent >>

NextAgent ==
    \/ GetAgentCall
    \/ InitializeCall
    \/ AnalyzeMessageCall

SpecAgent == InitAgent /\ [][NextAgent]_vars

(***************************************************************************)
(* Properties.                                                             *)
(***************************************************************************)
\* the last scan call returned a list to the mode function
ScanReturned == source_fault # "navigation"

\* an incremental scan has returned and its result is in messages
PollReturned ==
    /\ mode = "monitor-live"
    /\ check_count >= 1
    /\ ScanReturned
    /\ (pc = "poll" => gi > 1)

\* C1: no fingerprint is returned as new by more than one incremental scan,
\* and an incremental scan never returns a message whose fingerprint was in
\* seen_message_ids when the scan was called.
NoRepeat ==
    /\ \A id \in BagToSet(returned_calls) : CopiesIn(id, returned_calls) <= 1
    /\ PollReturned => Ids(messages) \cap seen_before = {}

\* a later poll met a message whose fingerprint an earlier poll had returned
NoRepeatWitness ==
    /\ PollReturned
    /\ check_count = 2
    /\ \E i \in DOMAIN all_messages :
         /\ _get_message_id(all_messages[i]) \in BagToSet(returned_calls)
         /\ _get_message_id(all_messages[i]) \in seen_before
         /\ _get_message_id(all_messages[i]) \notin Ids(messages)

\* the indexes of all whose fingerprint is not in seen
AbsentIndexes(all, seen) ==
    {i \in DOMAIN all : _get_message_id(all[i]) \notin seen}

\* the indexes of AbsentIndexes that are the first with their fingerprint
FirstAbsentIndexes(all, seen) ==
    {i \in AbsentIndexes(all, seen) :
        \A j \in 1..(i - 1) : _get_message_id(all[j]) # _get_message_id(all[i])}

\* ms is the sublist of all at the indexes K, in the order of all
IsSublistAt(ms, all, K) ==
    /\ Len(ms) = Cardinality(K)
    /\ \A i \in K : ms[Cardinality({j \in K : j <= i})] = all[i]

\* C2 as stated: an incremental scan returns exactly the yielded messages
\* whose fingerprint is absent from the seen set the scan was called with,
\* in yield order, and inserts the fingerprints of the returned messages.
ScanReturnsAllAbsent ==
    PollReturned =>
        /\ IsSublistAt(messages, all_messages,
                       AbsentIndexes(all_messages, seen_before))
        /\ seen_message_ids = seen_before \cup Ids(messages)

\* C2 amended: an incremental scan returns, in yield order, exactly the
\* yielded messages whose fingerprint is absent from the seen set the scan
\* was called with and is not the fingerprint of an earlier message of the
\* same extraction, and inserts the fingerprints of the returned messages.
ScanReturnsFirstAbsent ==
    PollReturned =>
        /\ IsSublistAt(messages, all_messages,
                       FirstAbsentIndexes(all_messages, seen_before))
        /\ seen_message_ids = seen_before \cup Ids(messages)

\* a poll over two messages, the first seen before and the second not,
\* returned the second
ScanReturnsFirstAbsentWitness ==
    /\ PollReturned
    /\ Len(all_messages) = 2
    /\ _get_message_id(all_messages[1]) \in seen_before
    /\ messages = << all_messages[2] >>

\* C3: an incremental scan that yields only messages marked as seen by the
\* initial load returns the empty list and starts no classifier call.
BaselineSeeding ==
    (mode = "monitor-live" /\ ScanReturned /\ Range(all_messages) \subseteq seeded)
        => /\ messages = <<>>
           /\ outcomes = <<>>
           /\ pc \notin {"initialize", "analyze", "classify"}

\* the first poll of the first group yielded seeded messages
BaselineSeedingWitness ==
    /\ PollReturned
    /\ check_count = 1
    /\ pc = "poll"
    /\ gi = 2
    /\ all_messages # <<>>
    /\ Range(all_messages) \subseteq seeded
    /\ matches = <<>>

SameTriple(m1, m2) ==
    /\ m1.sender = m2.sender
    /\ Take(m1.text, PrefixLen) = Take(m2.text, PrefixLen)
    /\ m1.timestamp = m2.timestamp

\* C4: two _get_message_id calls on messages with the same sender, the same
\* first 50 characters of text and the same timestamp give the same
\* fingerprint, whatever the phone number and the rest of the text.
FingerprintOfTriple ==
    \A p \in id_log, q \in id_log : SameTriple(p[1], q[1]) => p[2] = q[2]

\* fingerprints were computed for messages that differ after the 50th
\* character and for messages that differ in the phone number
FingerprintOfTripleWitness ==
    /\ \E p \in id_log, q \in id_log :
         /\ SameTriple(p[1], q[1])
         /\ p[1].text # q[1].text
         /\ Len(p[1].text) > PrefixLen
    /\ \E p \in id_log, q \in id_log :
         /\ SameTriple(p[1], q[1])
         /\ p[1].phone_number # q[1].phone_number
    /\ \E p \in id_log, q \in id_log : p[2] # q[2]

\* C5: seen_message_ids is empty at creation and no step removes a
\* fingerprint from it.
SeenOnlyGrows ==
    /\ seen_message_ids = {}
    /\ [][seen_message_ids \subseteq seen_message_ids']_vars

\* the initial load and a later poll have both inserted fingerprints
SeenOnlyGrowsWitness ==
    /\ PollReturned
    /\ seen_before # {}
    /\ seen_before # seen_message_ids
    /\ seeded # {}

\* the matches the current batch has added to the tracker
BatchMatches == SubSeq(matches, batch_start + 1, Len(matches))

InviteIndexes == {i \in DOMAIN outcomes : outcomes[i] = "invite"}

\* C6: in a batch, every message is passed to the classifier whatever
\* happened to the messages before it, a message whose classification threw
\* or returned None adds no match, and the matches of the other messages
\* are in the tracker in input order.
FailureIsolation ==
    outcomes # <<>> =>
        /\ Len(outcomes) = mi - 1
        /\ pc \notin {"analyze", "classify"} => Len(outcomes) = Len(messages)
        /\ Len(BatchMatches) = Cardinality(InviteIndexes)
        /\ \A i \in InviteIndexes :
             BatchMatches[Cardinality({j \in InviteIndexes : j <= i})].message
                 = messages[i]

\* a batch of two messages ended: the first failed, the second is a match
FailureIsolationWitness ==
    /\ pc \notin {"analyze", "classify"}
    /\ Len(messages) = 2
    /\ Len(outcomes) = 2
    /\ outcomes[1] \in {"throws", "absent"}
    /\ outcomes[2] = "invite"
    /\ Len(BatchMatches) = 1

\* C7: the matches a batch adds to the tracker are exactly the messages
\* classified with is_game_invite = true, in input order; a message
\* classified with is_game_invite = false is never a match.
PositiveFiltering ==
    outcomes # <<>> =>
        IsSublistAt([k \in DOMAIN BatchMatches |-> BatchMatches[k].message],
                    messages, InviteIndexes)

\* a batch ended with one invite and one message that is no invite
PositiveFilteringWitness ==
    /\ pc \notin {"analyze", "classify"}
    /\ Len(outcomes) = 2
    /\ outcomes[1] = "no_invite"
    /\ outcomes[2] = "invite"
    /\ Len(BatchMatches) = 1

\* C8 as stated: when the navigation to one chat fails, the other chats of
\* the pass are still scanned.
ChatSkippedOnNavigationError ==
    (pc = "done" /\ error = "navigation") =>
        \A g \in DOMAIN groups : g # gi => g \in scanned

\* C9 as stated: a failure of the message source is propagated to the
\* caller of the scan and the seen set is unchanged.
SourceFailurePropagates ==
    source_fault # "none" =>
        /\ error \in {"navigation", "extraction"}
        /\ seen_message_ids = seen_before

\* C10 as stated: a classifier error, connection refused included, never
\* leaves analyze_messages.
ClassifierErrorContained == error # "connection"

\* the scenario files whose groups list holds g
Listing(g) == {i \in DOMAIN scenario_files : g \in Range(scenario_files[i].groups)}

\* the file has a prompt that is not blank, a response schema and groups
Defines(file) ==
    /\ \E i \in DOMAIN file.prompt : file.prompt[i] # " "
    /\ file.response_schema # <<>>
    /\ file.groups # <<>>

\* C11 as stated: get_scenario_for_group returns, for a chat identifier
\* that a scenario file lists in groups, the scenario of that file, also
\* when several files list it; for an identifier no file lists, None.
DispatchComplete ==
    \A e \in lookup_log :
        /\ \A i \in Listing(e[1]) : \E s \in e[2] : s.name = scenario_files[i].name
        /\ Listing(e[1]) = {} => e[2] = {}

\* C11 amended: get_scenario_for_group returns, for a chat identifier
\* listed by at least one scenario file that has a non-blank prompt, a
\* response schema and groups, the scenario of the last such file in load
\* order, with the groups of that file; for every other identifier, None.
DispatchLastLoaded ==
    \A e \in lookup_log :
        LET L == {i \in Listing(e[1]) : Defines(scenario_files[i])}
        IN IF L = {} THEN e[2] = {}
           ELSE \E last \in L :
                  /\ \A i \in L : i <= last
                  /\ Cardinality(e[2]) = 1
                  /\ \A s \in e[2] : /\ s.name = scenario_files[last].name
                                     /\ s.groups = scenario_files[last].groups

\* lookups were made for a chat that two loaded scenarios list, the later
\* one being returned, and for a chat no file lists
DispatchLastLoadedWitness ==
    /\ Len(scenario_files) = 2
    /\ \E e \in lookup_log :
         /\ {i \in Listing(e[1]) : Defines(scenario_files[i])} = {1, 2}
         /\ \E s \in e[2] : s.name = scenario_files[2].name
    /\ \E e \in lookup_log : Listing(e[1]) = {} /\ e[2] = {}

\* the groups that no scenario lists
Unmapped ==
    {g \in DOMAIN groups : get_scenario_for_group(group_to_scenario, groups[g]) = {}}

ClassifiedUnderOwnScenario ==
    \A e \in classified_by :
        \E scenario \in get_scenario_for_group(group_to_scenario, e[1]) :
            scenario.name = e[2]

\* C14: at most one classifier call is in flight, and the call in flight
\* is the one for the message after those whose calls have returned or
\* failed, so the calls are issued one after the other in input order.
SequentialClassification ==
    /\ Cardinality(in_flight) <= 1
    /\ \A i \in in_flight : i = Len(outcomes) + 1
    /\ pc # "classify" => in_flight = {}

\* the call for the second message of a batch is in flight after the call
\* for the first message has failed
SequentialClassificationWitness ==
    /\ pc = "classify"
    /\ in_flight = {2}
    /\ outcomes = << "throws" >>

\* the user has interrupted the run or has closed the window
Cancelled ==
    \/ window = "closed"
    \/ error \in {"KeyboardInterrupt", "CancelledError"}

\* C15 as stated: once the live monitor has been cancelled, by a user
\* interrupt or by the closing of the window, no further message is sent to
\* the classifier and no new poll cycle is started.
CancellationHonoured ==
    [][(mode = "monitor-live" /\ Cancelled)
          => (in_flight' \subseteq in_flight /\ check_count' = check_count)]_vars

\* C16 as stated: when a run is interrupted, the matches gathered before
\* are still reported.
PartialResultsSurfaced ==
    (pc = "done" /\ error \in {"KeyboardInterrupt", "CancelledError"}
                 /\ matches # <<>>)
        => "summary" \in printed

\* main() found no group to scan
ConfigError == load_groups(group_to_scenario) = <<>>

\* C17 as stated: on every exit path after the scanner exists,
\* scanner.cleanup() has been called exactly once when the mode function
\* returns or raises.
CleanupOnceAfterScanner ==
    (pc = "done" /\ ~ConfigError) => cleanups = 1

\* C17 amended: on every exit path after the try block of the mode function
\* has been entered, scanner.cleanup() has been called exactly once when
\* the mode function returns or raises, and it is not called earlier.
CleanupOnceAfterTry ==
    /\ (pc = "done" /\ window # "none") => cleanups = 1
    /\ pc # "done" => cleanups = 0

\* a live monitor that had found a match was cancelled and has ended
\* with one cleanup
CleanupOnceAfterTryWitness ==
    /\ pc = "done"
    /\ cleanups = 1
    /\ error = "CancelledError"
    /\ mode = "monitor-live"
    /\ matches # <<>>

\* C18 as stated: the exit code is 1 exactly when there is a configuration
\* error, and then nothing has been scanned; it is 0 on every other run.
ExitOneOnlyOnConfigError ==
    pc = "done" =>
        /\ exit_code = 1 <=> ConfigError
        /\ ~ConfigError => exit_code = 0
        /\ ConfigError => window = "none" /\ cleanups = 0

\* the mode function has ended in an except handler whose
\* gui_window.destroy() met a window the user had closed
DestroyRaised ==
    /\ error \in {"start", "navigation", "connection", "KeyboardInterrupt"}
    /\ window = "closed"

\* C18 amended: the exit code is 1 when there is a configuration error
\* (and then nothing has been scanned), when the window cannot be built,
\* and when destroy() raises in an except handler because the user had
\* closed the window; a run cancelled by asyncio ends with
\* KeyboardInterrupt; every other run exits with 0.
ExitCodeByOutcome ==
    pc = "done" =>
        /\ exit_code = 1 <=> (window = "none" \/ DestroyRaised)
        /\ exit_code = 130 <=> error = "CancelledError"
        /\ exit_code = 0 <=>
              (window # "none" /\ ~DestroyRaised /\ error # "CancelledError")
        /\ ConfigError => window = "none" /\ cleanups = 0 /\ exit_code = 1

\* a run that ended with a navigation error after the user had closed the
\* window has exit code 1
ExitCodeByOutcomeWitness ==
    /\ pc = "done"
    /\ error = "navigation"
    /\ window = "closed"
    /\ exit_code = 1
    /\ cleanups = 1

\* C19 as stated: an incremental scan of a chat returns a message as new
\* when its fingerprint has not been met in that chat, whatever has been
\* seeded or returned for the other chats.
PerChatSeen ==
    (PollReturned /\ seen_in # <<>>) =>
        IsSublistAt(messages, all_messages,
                    FirstAbsentIndexes(all_messages, chat_before.seen))

\* the fingerprints the scans of the other chats had met when the last
\* scan was called
SeenInOtherChats ==
    UNION {seen_in[g] : g \in DOMAIN groups \ {chat_before.group}}

\* C19 amended: the seen state is shared by the chats of a scanner: it is
\* the union of the fingerprints met in every chat, and an incremental scan
\* of a chat returns a message as new when its fingerprint has been met
\* neither in that chat nor in any other chat (and is the first of its
\* fingerprint in the extraction).
SharedSeen ==
    seen_in # <<>> =>
        /\ seen_message_ids = UNION {seen_in[g] : g \in DOMAIN groups}
        /\ PollReturned =>
             IsSublistAt(messages, all_messages,
                         FirstAbsentIndexes(all_messages,
                                            chat_before.seen \cup SeenInOtherChats))

\* a poll of the second chat did not return a message whose fingerprint
\* had been met in the first chat only
SharedSeenWitness ==
    /\ PollReturned
    /\ seen_in # <<>>
    /\ chat_before.group = 2
    /\ \E i \in DOMAIN all_messages :
         /\ _get_message_id(all_messages[i]) \notin chat_before.seen
         /\ _get_message_id(all_messages[i]) \in seen_in[1]
         /\ all_messages[i] \notin Range(messages)

\* C20 as stated: a history scan that got past the configuration and has
\* ended, whether or not a chat failed to open or the classifier failed,
\* has printed the line "Total matches found".
TotalReported ==
    (pc = "done" /\ mode = "scan-history" /\ window # "none"
                 /\ error \in {"none", "navigation", "connection"})
        => "summary" \in printed

(***************************************************************************)
(* Which messages reach the classifier.                                    *)
(***************************************************************************)
\* no classifier call of the batch in messages is still to come
BatchOver == pc \notin {"initialize", "analyze", "classify"}

\* C21: in scan-history mode every message the source returned for a chat
\* is passed to the classifier exactly once, in extraction order and
\* unfiltered: once the batch of a scanned chat is over, the batch was the
\* whole extraction and each of its messages has the outcome of its one
\* call; in monitor-live mode no classifier call is issued before the
\* initial load of all chats has ended, and no message of the initial load
\* is ever in a batch.
ClassifierSeesEveryHistoryMessage ==
    /\ (mode = "scan-history" /\ scanned # {} /\ BatchOver)
          => /\ messages = all_messages
             /\ Len(outcomes) = Len(all_messages)
             /\ in_flight = {}
    /\ mode = "monitor-live"
          => /\ check_count = 0
                   => classified_by = {} /\ outcomes = <<>> /\ in_flight = {}
             /\ Range(messages) \cap seeded = {}

(***************************************************************************)
(* Who writes the seen set.                                                *)
(***************************************************************************)
\* this step is a scan_group_history call of the initial load that
\* returned, with the loop of lines 157-159 after it
LoadStep ==
    /\ pc = "load"
    /\ pc' # pc \/ gi' # gi
    /\ source_fault' # "navigation"

\* this step is a scan_group_new_messages call that returned
PollStep ==
    /\ pc = "poll"
    /\ pc' # pc \/ gi' # gi
    /\ source_fault' # "navigation"

Redundant(calls, seen) ==
    \E i \in DOMAIN calls :
        \/ calls[i] \in seen
        \/ \E j \in 1..(i - 1) : calls[j] = calls[i]

\* the initial load of a group has returned and has marked its messages
LoadReturned ==
    /\ mode = "monitor-live"
    /\ ScanReturned
    /\ \/ pc = "load" /\ gi > 1
       \/ check_count = 1 /\ scanned = {} /\ pc \in {"poll", "update"}

\* C23 as stated: over the whole run no insert is issued for a fingerprint
\* that is in the seen set already.
InsertOncePerFingerprint ==
    ~Redundant(insert_calls.scanner \o insert_calls.caller, seen_before)

\* C23, amended: an incremental scan issues an insert only for a
\* fingerprint that is not in the seen set, also when the extraction holds
\* the fingerprint twice; the initial load issues one insert for every
\* message it extracted, in extraction order, whether or not the
\* fingerprint is in the set; the set after a scan is the set before it
\* with the inserted fingerprints.
InsertOncePerFingerprintInPolls ==
    /\ ~Redundant(insert_calls.scanner, seen_before)
    /\ LoadReturned =>
          /\ Len(insert_calls.caller) = Len(all_messages)
          /\ \A i \in DOMAIN all_messages :
                 insert_calls.caller[i] = _get_message_id(all_messages[i])
    /\ PollReturned =>
          /\ insert_calls.caller = <<>>
          /\ Len(insert_calls.scanner) = Len(messages)
    /\ seen_message_ids =
           Inserted(insert_calls.scanner \o insert_calls.caller, seen_before)

\* the initial load has inserted one fingerprint for two messages, and an
\* incremental scan that extracted an unseen fingerprint twice has issued
\* one insert
InsertOncePerFingerprintInPollsWitness ==
    /\ PollReturned
    /\ \E m1, m2 \in seeded :
           m1 # m2 /\ _get_message_id(m1) = _get_message_id(m2)
    /\ Len(all_messages) = 2
    /\ _get_message_id(all_messages[1]) = _get_message_id(all_messages[2])
    /\ _get_message_id(all_messages[1]) \notin seen_before
    /\ Len(insert_calls.scanner) = 1

(***************************************************************************)
(* The order of the work across chats.                                     *)
(***************************************************************************)
\* C24: chats are processed one after the other: a scan of the next chat
\* starts only when no classifier call is outstanding and every message of
\* the batch before it has the outcome of its call, the chats scanned so
\* far in the pass are the ones before the current chat, and a poll cycle
\* of monitor-live mode that is over has scanned every configured chat.
SequentialAcrossChats ==
    /\ pc \in {"scan", "poll"}
          => /\ in_flight = {}
             /\ Len(outcomes) = Len(messages)
             /\ scanned = 1..(gi - 1)
    /\ (/\ mode = "monitor-live"
        /\ check_count >= 1
        /\ pc \in {"update", "except_exception", "finally", "done"})
          => scanned = DOMAIN groups

(***************************************************************************)
(* At most one classifier call per fingerprint in live monitoring.         *)
(***************************************************************************)
\* C25: in monitor-live mode the fingerprint of a message is in the seen
\* set when the message is handed to the classifier, no fingerprint is
\* handed to the classifier more than once and none is returned as new
\* more than once, whatever the outcome of its call was; a batch holds
\* only fingerprints that were never handed to the classifier before it.
ClassifiedAtMostOnce ==
    mode = "monitor-live" =>
        /\ \A id \in BagToSet(classified_ids) :
               /\ id \in seen_message_ids
               /\ CopiesIn(id, classified_ids) = 1
               /\ CopiesIn(id, returned_calls) = 1
        /\ \A i \in DOMAIN messages :
               (i > Len(outcomes) /\ i \notin in_flight)
                   => _get_message_id(messages[i]) \notin BagToSet(classified_ids)

\* in the second poll cycle an incremental scan has met a message that was
\* classified in the first cycle without giving a match (its call threw,
\* returned absent or returned no invitation), and has not returned it
ClassifiedAtMostOnceWitness ==
    /\ PollReturned
    /\ check_count = 2
    /\ matches = <<>>
    /\ \E i \in DOMAIN all_messages :
           /\ _get_message_id(all_messages[i]) \in BagToSet(classified_ids)
           /\ _get_message_id(all_messages[i]) \in seen_before
           /\ _get_message_id(all_messages[i]) \notin Ids(messages)

(***************************************************************************)
(* Equal fingerprints within one incremental scan.                         *)
(***************************************************************************)
\* the first position of all_messages that holds the fingerprint id
FirstWith(id) ==
    CHOOSE i \in DOMAIN all_messages :
        /\ _get_message_id(all_messages[i]) = id
        /\ \A j \in 1..(i - 1) : _get_message_id(all_messages[j]) # id

\* C26: the list an incremental scan returns never holds two messages with
\* equal fingerprints, and a returned message is the first message of the
\* extraction, in yield order, that has its fingerprint.
ReturnedFingerprintsDistinct ==
    PollReturned =>
        /\ \A i, j \in DOMAIN messages :
               i # j => _get_message_id(messages[i]) # _get_message_id(messages[j])
        /\ \A k \in DOMAIN messages :
               messages[k] = all_messages[FirstWith(_get_message_id(messages[k]))]

\* the source has yielded two different messages with one unseen
\* fingerprint and the scan has returned the first of them only
ReturnedFingerprintsDistinctWitness ==
    /\ PollReturned
    /\ Len(all_messages) = 2
    /\ all_messages[1] # all_messages[2]
    /\ _get_message_id(all_messages[1]) = _get_message_id(all_messages[2])
    /\ messages = << all_messages[1] >>

(***************************************************************************)
(* Progress of the live monitor.                                           *)
(***************************************************************************)
\* a source failure, a classifier-initialisation failure, a failure to
\* build the window, or a cancellation by the user (interrupt, window
\* closed) has occurred
Disrupted ==
    \/ error # "none"
    \/ escaping # "none"
    \/ exit_code # Running
    \/ window \in {"close_requested", "closed", "destroyed"}

\* C27 as stated, its safety part: when the batch of an incremental scan is
\* over, every message the source yielded whose fingerprint was not in the
\* seen set at the start of the poll has been passed to the classifier.
EveryUnseenMessageClassified ==
    (PollReturned /\ BatchOver /\ ~Disrupted) =>
        \A i \in AbsentIndexes(all_messages, seen_before) :
            \E k \in 1..Len(outcomes) : messages[k] = all_messages[i]

\* the batch of the last incremental scan is over: it held, in yield
\* order, the yielded messages whose fingerprint was not in the seen set
\* at the start of the poll and was not carried by an earlier message of
\* the extraction, and each of them has the outcome of its classifier call
FirstUnseenClassified ==
    (PollReturned /\ BatchOver /\ ~Disrupted) =>
        /\ IsSublistAt(messages, all_messages,
                       FirstAbsentIndexes(all_messages, seen_before))
        /\ Len(outcomes) = Len(messages)
        /\ in_flight = {}

\* C27, amended: unless a failure or a cancellation occurs, every poll
\* cycle (up to the bound MaxChecks) runs to its end, and when the batch of
\* a poll is over, so before the next chat is polled and before the next
\* cycle begins, every yielded message whose fingerprint was not in the
\* seen set at the start of the poll and that is the first of the
\* extraction with its fingerprint has been passed to the classifier.
LiveMonitorProgress ==
    /\ []FirstUnseenClassified
    /\ \A c \in 1..MaxChecks :
           <>(Disrupted \/ (pc = "update" /\ check_count = c /\ scanned = DOMAIN groups))

\* the last poll cycle has ended undisturbed, and its last poll classified
\* the first of two yielded messages with one unseen fingerprint
LiveMonitorProgressWitness ==
    /\ ~Disrupted
    /\ pc = "update"
    /\ check_count = MaxChecks
    /\ PollReturned
    /\ Len(all_messages) = 2
    /\ all_messages[1] # all_messages[2]
    /\ _get_message_id(all_messages[1]) = _get_message_id(all_messages[2])
    /\ messages = << all_messages[1] >>
    /\ Len(outcomes) = 1

(***************************************************************************)
(* The key string of the fingerprint.                                      *)
(***************************************************************************)
\* C28: the key string is injective on the triple: two messages whose
\* fingerprints were computed have the same key string only if they have
\* the same sender, the same first 50 characters of text and the same
\* timestamp, also when a field contains the separator.
KeyInjectiveOnTriple ==
    \A p, q \in id_log :
        Key(p[1]) = Key(q[1]) => SameTriple(p[1], q[1])

(***************************************************************************)
(* scan_group_history and the seen set.                                    *)
(***************************************************************************)
\* C29: scan_group_history issues no insert and leaves the seen set as it
\* is: in scan-history mode the set is empty in every state of the run; in
\* monitor-live mode the inserts of the initial load are all issued by the
\* caller after the scan has returned, and they are what puts the
\* fingerprints of the extraction into the set.
HistoryScanLeavesSeenUnchanged ==
    /\ mode = "scan-history" =>
          /\ seen_message_ids = {}
          /\ insert_calls = [scanner |-> <<>>, caller |-> <<>>]
    /\ LoadReturned =>
          /\ insert_calls.scanner = <<>>
          /\ seen_message_ids = Inserted(insert_calls.caller, seen_before)
          /\ Ids(all_messages) \subseteq seen_message_ids

\* a history scan has returned two messages, both have been classified,
\* and the seen set is empty
HistoryScanLeavesSeenUnchangedWitness ==
    /\ mode = "scan-history"
    /\ ScanReturned
    /\ Len(all_messages) = 2
    /\ messages = all_messages
    /\ Len(outcomes) = 2
    /\ seen_message_ids = {}

(***************************************************************************)
(* Lifecycle of the classifier client.                                     *)
(***************************************************************************)
\* events in which the connection check ran
CheckEvents == {"initialize:ConnectionError", "initialize:created"}

\* C30: get_agent builds one PadelAgent and returns it ever after;
\* initialize checks the connection and creates the agent at most once
\* after its first success, later calls return at once; an initialize that
\* fails with a connection error leaves the flag unset and the agent
\* missing, and the next initialize or analyze_message call runs the
\* connection check again; analyze_message never runs a missing agent.
AgentLifecycle ==
    /\ _agent \in 0..1
    /\ \A i \in DOMAIN agent_log : agent_log[i] = "get_agent:new" => i = 1
    /\ \A i, j \in DOMAIN agent_log :
           (i < j /\ agent_log[i] = "initialize:created")
               => agent_log[j] \notin CheckEvents
    /\ _initialized <=> agent = "ChatAgent"
    /\ _initialized <=> \E i \in DOMAIN agent_log : agent_log[i] = "initialize:created"
    /\ \A i, j \in DOMAIN agent_log :
           (/\ i < j
            /\ agent_log[i] = "initialize:ConnectionError"
            /\ \A k \in (i + 1)..(j - 1) :
                   agent_log[k] \in {"get_agent:same", "get_agent:new"})
               => agent_log[j] \in CheckEvents \cup {"get_agent:same"}
    /\ \A i \in DOMAIN agent_log : agent_log[i] # "run:no_agent"

\* an initialize failed, the next analyze_message call checked the
\* connection again, created the agent and ran it, and a later initialize
\* returned at once
AgentLifecycleWitness ==
    /\ Len(agent_log) = 5
    /\ agent_log[1] = "get_agent:new"
    /\ agent_log[2] = "initialize:ConnectionError"
    /\ agent_log[3] = "initialize:created"
    /\ agent_log[4] = "run"
    /\ agent_log[5] = "initialize:return"
    /\ _initialized

====
